---- MODULE Spec2Model ----
(***************************************************************************)
(* EarlyAllocator<PAGE_SIZE> of arceos/modules/bump_allocator/src/lib.rs:  *)
(* a double-ended bump allocator over one range [start, end).  Bytes are   *)
(* allocated forward from b_pos, pages backward from p_pos.                *)
(*                                                                         *)
(* usize is modelled with WordBits bits.  Rust's unchecked + and - panic   *)
(* when the build has overflow checks (debug profile) and wrap modulo      *)
(* 2^WordBits when it has none (release profile); the profile is chosen    *)
(* once, in Init, and both are explored.                                   *)
(***************************************************************************)
EXTENDS Integers, FiniteSets, Sequences, TLC

\* ---- bounds of the model ----
WordBits == 16          \* width of usize in the model
MaxAllocs == 2          \* cap on the allocations made from one zone before it is reclaimed

\* ---- program constant ----
PAGE_SIZE == 4096       \* const generic parameter of EarlyAllocator

RECURSIVE Pow2(_)
Pow2(n) == IF n = 0 THEN 1 ELSE 2 * Pow2(n - 1)

Word == Pow2(WordBits)              \* usize::MAX + 1
PANIC == -1                         \* an arithmetic-overflow panic
NONE == -2                          \* None of a checked_* operation

VARIABLES
    start, end, b_pos, p_pos, count, page_count,   \* the fields of EarlyAllocator
    overflow_checks,   \* build profile: TRUE = overflow panics, FALSE = wraps
    last,              \* history: the last call, its arguments and its result;
                       \* changed: it changed a field; busy: allocations were
                       \* outstanding when it was made
    liveB, liveP,      \* history: allocations returned and not yet given back
    hist               \* history: shape of the call sequence since the last init

Fields == <<start, end, b_pos, p_pos, count, page_count>>
vars == <<start, end, b_pos, p_pos, count, page_count, overflow_checks,
          last, liveB, liveP, hist>>

\* ---- machine arithmetic ----

\* usize `+`
Add(a, b) ==
    IF a = PANIC \/ b = PANIC THEN PANIC
    ELSE IF a + b < Word THEN a + b
    ELSE IF overflow_checks THEN PANIC ELSE a + b - Word

\* usize `-`
Sub(a, b) ==
    IF a = PANIC \/ b = PANIC THEN PANIC
    ELSE IF a >= b THEN a - b
    ELSE IF overflow_checks THEN PANIC ELSE a - b + Word

\* usize `/` by PAGE_SIZE
DivPage(a) == IF a = PANIC THEN PANIC ELSE a \div PAGE_SIZE

\* usize `!`
Not(a) == IF a = PANIC THEN PANIC ELSE Word - 1 - a

RECURSIVE BitAnd(_, _, _)
BitAnd(a, b, n) ==
    IF n = 0 THEN 0
    ELSE (a % 2) * (b % 2) + 2 * BitAnd(a \div 2, b \div 2, n - 1)

\* usize `&`
And(a, b) == IF a = PANIC \/ b = PANIC THEN PANIC ELSE BitAnd(a, b, WordBits)

checked_add(a, b) == IF a + b < Word THEN a + b ELSE NONE
checked_sub(a, b) == IF a >= b THEN a - b ELSE NONE
\* a multiplication that wraps
wrapping_mul(a, b) == (a * b) % Word

checked_mul(a, b) == IF a * b < Word THEN a * b ELSE NONE

\* ---- alignment helpers ----
\* a round-up that adds align instead of align - 1
align_up_off(addr, align) == And(Add(addr, align), Not(Sub(align, 1)))

align_up(addr, align) == And(Sub(Add(addr, align), 1), Not(Sub(align, 1)))

\* a round-down that leaves the address as it is
align_down_none(addr, align) == addr

align_down(addr, align) == And(addr, Not(Sub(align, 1)))

\* ---- inputs ----
\* (start, size) of a region: at address 0, the scenario's, one whose start is
\* not aligned, one at the top of the address space, and one whose end is not
\* representable
Regions == { <<0, 2 * PAGE_SIZE>>, <<PAGE_SIZE, 2 * PAGE_SIZE>>,
             <<PAGE_SIZE + 4, 2 * PAGE_SIZE>>,
             <<Word - 4 * PAGE_SIZE, 3 * PAGE_SIZE>>,
             <<Word - 4 * PAGE_SIZE, 5 * PAGE_SIZE>> }

IsPow2(a) == \E k \in 0..(WordBits - 1) : a = Pow2(k)

\* core::alloc::Layout: align is a power of two and size, rounded up to
\* align, does not exceed isize::MAX
ValidLayout(size, align) ==
    /\ IsPow2(align)
    /\ ((size + align - 1) \div align) * align <= (Word \div 2) - 1

\* (size, align)
Layouts == { l \in { <<16, 8>>, <<2 * PAGE_SIZE, 1>>, <<PAGE_SIZE, PAGE_SIZE>>,
                     <<2 * PAGE_SIZE, 4 * PAGE_SIZE>> } :
             ValidLayout(l[1], l[2]) }

\* (num_pages, align_pow2)
PageReqs == { <<1, PAGE_SIZE>>, <<1, 2 * PAGE_SIZE>>, <<3, PAGE_SIZE>>,
              <<1, 0>>, <<Word \div PAGE_SIZE, PAGE_SIZE>> }

BogusBytes == <<1, 1, 1>>          \* a (pos, size, align) never returned by alloc
BogusPages == <<PAGE_SIZE + 1, 1>> \* a (pos, num_pages) never returned by alloc_pages

\* ---- operations, as functions of the current fields ----
\* each yields the fields after the call, the kind of result and the value
R(f, res, ret) == [f |-> f, res |-> res, ret |-> ret]

\* EarlyAllocator::new
new == <<0, 0, 0, 0, 0, 0>>

\* init that leaves the two counters as they were
init_keep_counts(s, size) ==
    LET e == Add(s, size)
    IN  IF e = PANIC THEN R(Fields, "panic", NONE)
        ELSE R(<<s, e, s, e, count, page_count>>, "unit", NONE)

\* init that leaves the byte cursor where it was
init_keep_cursor(s, size) ==
    LET e == Add(s, size)
    IN  IF e = PANIC THEN R(Fields, "panic", NONE)
        ELSE R(<<s, e, b_pos, e, 0, 0>>, "unit", NONE)

\* BaseAllocator::init
init(s, size) ==
    LET e == Add(s, size)
    IN  IF e = PANIC THEN R(Fields, "panic", NONE)
        ELSE R(<<s, e, s, e, 0, 0>>, "unit", NONE)

\* add_memory that takes the region as the new end of the range
add_memory_accept(s, size) ==
    R(<<start, (s + size) % Word, b_pos, p_pos, count, page_count>>, "unit", NONE)

\* BaseAllocator::add_memory
add_memory(s, size) == R(Fields, "NoMemory", NONE)

\* alloc that returns the bumped cursor instead of the aligned address
alloc_returns_end(size, align) ==
    LET aligned_addr == align_up(b_pos, align)
        new_b_pos == checked_add(aligned_addr, size)
        f == <<start, end, new_b_pos, p_pos, count + 1, page_count>>
    IN  IF aligned_addr = PANIC THEN R(Fields, "panic", NONE)
        ELSE IF new_b_pos = NONE THEN R(Fields, "NoMemory", NONE)
        ELSE IF new_b_pos > p_pos THEN R(Fields, "NoMemory", NONE)
        ELSE IF new_b_pos = 0 THEN R(f, "NoMemory", NONE)
        ELSE R(f, "Ok", new_b_pos)

\* ByteAllocator::alloc
alloc(size, align) ==
    LET aligned_addr == align_up(b_pos, align)
        new_b_pos == checked_add(aligned_addr, size)
        f == <<start, end, new_b_pos, p_pos, count + 1, page_count>>
    IN  IF aligned_addr = PANIC THEN R(Fields, "panic", NONE)
        ELSE IF new_b_pos = NONE THEN R(Fields, "NoMemory", NONE)
        ELSE IF new_b_pos > p_pos THEN R(Fields, "NoMemory", NONE)
        ELSE IF aligned_addr = 0 THEN R(f, "NoMemory", NONE)   \* NonNull::new(null)
        ELSE R(f, "Ok", aligned_addr)

\* dealloc that counts a call only when it names the topmost allocation
dealloc_lifo(pos, size, align) ==
    IF count > 0 /\ pos + size = b_pos
    THEN LET c == count - 1
         IN  R(<<start, end, IF c = 0 THEN start ELSE pos, p_pos, c, page_count>>,
               "unit", NONE)
    ELSE R(Fields, "unit", NONE)

\* dealloc that rewinds the byte cursor to the address it is given
dealloc_rewind(pos, size, align) ==
    IF count > 0
    THEN LET c == count - 1
         IN  R(<<start, end, IF c = 0 THEN start ELSE pos, p_pos, c, page_count>>,
               "unit", NONE)
    ELSE R(Fields, "unit", NONE)

\* dealloc that decrements count without looking at it
dealloc_unchecked(pos, size, align) ==
    LET c == Sub(count, 1)
    IN  IF c = PANIC THEN R(Fields, "panic", NONE)
        ELSE R(<<start, end, IF c = 0 THEN start ELSE b_pos, p_pos, c, page_count>>,
               "unit", NONE)

\* dealloc that never reclaims the byte zone
dealloc_keep(pos, size, align) ==
    IF count > 0
    THEN R(<<start, end, b_pos, p_pos, count - 1, page_count>>, "unit", NONE)
    ELSE R(Fields, "unit", NONE)

\* ByteAllocator::dealloc
dealloc(pos, size, align) ==
    IF count > 0
    THEN LET c == count - 1
         IN  R(<<start, end, IF c = 0 THEN start ELSE b_pos, p_pos, c, page_count>>,
               "unit", NONE)
    ELSE R(Fields, "unit", NONE)

\* ByteAllocator::total_bytes / used_bytes / available_bytes
total_bytes == Sub(end, start)
used_bytes == Sub(b_pos, start)
available_bytes == Sub(p_pos, b_pos)

\* alloc_pages that does not compare the aligned start with the byte cursor
alloc_pages_overlap(num_pages, align_pow2) ==
    LET total == checked_mul(num_pages, PAGE_SIZE)
        max_start == checked_sub(p_pos, total)
        aligned_start == align_down(max_start, align_pow2)
    IN  IF total = NONE THEN R(Fields, "InvalidParam", NONE)
        ELSE IF max_start = NONE THEN R(Fields, "NoMemory", NONE)
        ELSE IF aligned_start = PANIC THEN R(Fields, "panic", NONE)
        ELSE R(<<start, end, b_pos, aligned_start, count, page_count + 1>>,
               "Ok", aligned_start)

\* PageAllocator::alloc_pages
alloc_pages(num_pages, align_pow2) ==
    LET total == checked_mul(num_pages, PAGE_SIZE)
        max_start == checked_sub(p_pos, total)
        aligned_start == align_down(max_start, align_pow2)
    IN  IF total = NONE THEN R(Fields, "InvalidParam", NONE)
        ELSE IF max_start = NONE THEN R(Fields, "NoMemory", NONE)
        ELSE IF aligned_start = PANIC THEN R(Fields, "panic", NONE)
        ELSE IF aligned_start < b_pos THEN R(Fields, "NoMemory", NONE)
        ELSE R(<<start, end, b_pos, aligned_start, count, page_count + 1>>,
               "Ok", aligned_start)

\* dealloc_pages that reclaims both zones when page_count reaches 0
dealloc_pages_both(pos, num_pages) ==
    IF page_count > 0
    THEN LET c == page_count - 1
         IN  R(<<start, end, IF c = 0 THEN start ELSE b_pos,
                 IF c = 0 THEN end ELSE p_pos, count, c>>, "unit", NONE)
    ELSE R(Fields, "unit", NONE)

\* dealloc_pages that never reclaims the page zone
dealloc_pages_keep(pos, num_pages) ==
    IF page_count > 0
    THEN R(<<start, end, b_pos, p_pos, count, page_count - 1>>, "unit", NONE)
    ELSE R(Fields, "unit", NONE)

\* PageAllocator::dealloc_pages
dealloc_pages(pos, num_pages) ==
    IF page_count > 0
    THEN LET c == page_count - 1
         IN  R(<<start, end, b_pos, IF c = 0 THEN end ELSE p_pos, count, c>>,
               "unit", NONE)
    ELSE R(Fields, "unit", NONE)

\* PageAllocator::total_pages / used_pages / available_pages
total_pages == DivPage(Sub(end, start))
used_pages == DivPage(Sub(end, p_pos))
available_pages == DivPage(Sub(p_pos, b_pos))

\* ---- the state machine ----
Call(op, x, y, r) ==
    [op |-> op, x |-> x, y |-> y, res |-> r.res, ret |-> r.ret,
     changed |-> r.f # Fields, busy |-> count > 0 \/ page_count > 0]

\* store the fields a call leaves and record the call
Apply(op, x, y, r) ==
    /\ start' = r.f[1]
    /\ end' = r.f[2]
    /\ b_pos' = r.f[3]
    /\ p_pos' = r.f[4]
    /\ count' = r.f[5]
    /\ page_count' = r.f[6]
    /\ last' = Call(op, x, y, r)
    /\ UNCHANGED overflow_checks

Running == last.res # "panic"       \* a panic ends the program

Init ==
    /\ start = new[1]
    /\ end = new[2]
    /\ b_pos = new[3]
    /\ p_pos = new[4]
    /\ count = new[5]
    /\ page_count = new[6]
    /\ overflow_checks \in BOOLEAN
    /\ last = [op |-> "new", x |-> 0, y |-> 0, res |-> "unit", ret |-> NONE,
               changed |-> FALSE, busy |-> FALSE]
    /\ liveB = {}
    /\ liveP = {}
    /\ hist = [initOk |-> FALSE, matched |-> TRUE, na |-> 0, nd |-> 0, ok |-> TRUE,
               again |-> FALSE, nb |-> 0, np |-> 0]

CallInit ==
    \E g \in Regions :
        LET r == init(g[1], g[2])
        IN  /\ Running
            /\ Apply("init", g[1], g[2], r)
            /\ IF r.res = "panic"
               THEN UNCHANGED <<liveB, liveP, hist>>
               ELSE /\ liveB' = {}
                    /\ liveP' = {}
                    /\ hist' = [initOk |-> g[1] + g[2] < Word, matched |-> TRUE,
                                na |-> 0, nd |-> 0, ok |-> TRUE, again |-> FALSE,
                                nb |-> 0, np |-> 0]

CallAddMemory ==
    \E g \in Regions :
        /\ Running
        /\ Apply("add_memory", g[1], g[2], add_memory(g[1], g[2]))
        /\ UNCHANGED <<liveB, liveP, hist>>

\* history of the byte side: ok while the alloc calls since init were runs of
\* successful allocs (na of them), each followed by as many deallocs (nd);
\* again: the current run began after an earlier one was deallocated in full
NotOk == [hist EXCEPT !.ok = FALSE, !.na = 0, !.nd = 0, !.again = FALSE]

AfterAlloc(r) ==
    IF r.res # "Ok" \/ ~hist.ok THEN NotOk
    ELSE IF hist.nd = 0 THEN [hist EXCEPT !.na = @ + 1]
    ELSE IF hist.nd = hist.na THEN [hist EXCEPT !.na = 1, !.nd = 0, !.again = TRUE]
    ELSE NotOk

\* once a dealloc names no live allocation the run is unmatched, and the
\* live allocations are no longer followed
AfterDealloc(isLive) ==
    [hist EXCEPT !.matched = @ /\ isLive,
                 !.nd = IF hist.ok /\ @ < hist.na THEN @ + 1 ELSE @]

CallAlloc ==
    \E l \in Layouts :
        LET r == alloc(l[1], l[2])
            h == AfterAlloc(r)
        IN  /\ Running
            /\ r.f # Fields => hist.nb < MaxAllocs
            /\ Apply("alloc", l[1], l[2], r)
            /\ liveB' = IF r.res = "Ok" /\ hist.matched
                        THEN liveB \cup {<<r.ret, l[1], l[2]>>}
                        ELSE liveB
            /\ hist' = IF r.f # Fields THEN [h EXCEPT !.nb = @ + 1] ELSE h
            /\ UNCHANGED liveP

CallDealloc ==
    \E a \in liveB \cup {BogusBytes} :
        LET r == dealloc(a[1], a[2], a[3])
            h == AfterDealloc(a \in liveB)
        IN  /\ Running
            /\ Apply("dealloc", a[1], a[2], r)
            /\ liveB' = IF a \in liveB THEN liveB \ {a} ELSE {}
            /\ liveP' = IF a \in liveB THEN liveP ELSE {}
            /\ hist' = IF r.f[5] = 0 THEN [h EXCEPT !.nb = 0] ELSE h

CallAllocPages ==
    \E q \in PageReqs :
        LET r == alloc_pages(q[1], q[2])
        IN  /\ Running
            /\ r.f # Fields => hist.np < MaxAllocs
            /\ Apply("alloc_pages", q[1], q[2], r)
            /\ liveP' = IF r.res = "Ok" /\ hist.matched
                        THEN liveP \cup {<<r.ret, q[1]>>}
                        ELSE liveP
            /\ hist' = IF r.f # Fields THEN [hist EXCEPT !.np = @ + 1] ELSE hist
            /\ UNCHANGED liveB

CallDeallocPages ==
    \E a \in liveP \cup {BogusPages} :
        LET r == dealloc_pages(a[1], a[2])
            h == [hist EXCEPT !.matched = @ /\ a \in liveP]
        IN  /\ Running
            /\ Apply("dealloc_pages", a[1], a[2], r)
            /\ liveP' = IF a \in liveP THEN liveP \ {a} ELSE {}
            /\ liveB' = IF a \in liveP THEN liveB ELSE {}
            /\ hist' = IF r.f[6] = 0 THEN [h EXCEPT !.np = 0] ELSE h

Query(op, v) ==
    /\ Running
    /\ Apply(op, 0, 0, R(Fields, IF v = PANIC THEN "panic" ELSE "Ok", v))
    /\ UNCHANGED <<liveB, liveP, hist>>

CallTotalBytes == Query("total_bytes", total_bytes)
CallUsedBytes == Query("used_bytes", used_bytes)
CallAvailableBytes == Query("available_bytes", available_bytes)
CallTotalPages == Query("total_pages", total_pages)
CallUsedPages == Query("used_pages", used_pages)
CallAvailablePages == Query("available_pages", available_pages)

Next ==
    \/ CallInit
    \/ CallAddMemory
    \/ CallAlloc
    \/ CallDealloc
    \/ CallAllocPages
    \/ CallDeallocPages
    \/ CallTotalBytes
    \/ CallUsedBytes
    \/ CallAvailableBytes
    \/ CallTotalPages
    \/ CallUsedPages
    \/ CallAvailablePages

Spec == Init /\ [][Next]_vars

\* ---- properties ----

\* C1: after an init whose start + size is representable, every state reached by
\* any calls satisfies start <= b_pos <= p_pos <= end.
C1_CursorOrder ==
    hist.initOk => (start <= b_pos /\ b_pos <= p_pos /\ p_pos <= end)

\* the byte range of a live byte allocation and of a live page allocation
ByteEnd(a) == a[1] + a[2]
PageEnd(p) == p[1] + p[2] * PAGE_SIZE

\* C2: while every dealloc and dealloc_pages names a live allocation, every live
\* byte allocation [a, a+size) is disjoint from every live page allocation
\* [p, p+num_pages*PAGE_SIZE), ends at or below p_pos, and every live page
\* allocation starts at or above b_pos.
C2_ZonesDisjoint ==
    (hist.initOk /\ hist.matched) =>
        /\ \A a \in liveB : ByteEnd(a) <= p_pos
        /\ \A p \in liveP : p[1] >= b_pos
        /\ \A a \in liveB, p \in liveP : ByteEnd(a) <= p[1] \/ PageEnd(p) <= a[1]

\* C3: whenever no byte allocation is outstanding the byte cursor is at start.
C3_NoBytesMeansStart == count = 0 => b_pos = start

\* a dealloc has just brought count to 0
C3_Witness == last.op = "dealloc" /\ last.changed /\ count = 0 /\ hist.initOk

RoundUp(a, align) == ((a + align - 1) \div align) * align
RoundDown(a, align) == (a \div align) * align

\* C5: after a run of successful allocs and as many deallocs, whatever they
\* name, used_bytes() is 0, and the next successful alloc returns start rounded
\* up to its alignment.
C5_ReuseAfterAllFreed ==
    /\ []((hist.ok /\ hist.na > 0 /\ hist.nd = hist.na) => used_bytes = 0)
    /\ [][(hist.ok /\ hist.na > 0 /\ hist.nd = hist.na
           /\ last'.op = "alloc" /\ last'.res = "Ok")
          => last'.ret = RoundUp(start, last'.y)]_vars

\* two allocs, two deallocs, and an alloc that got an address above an unaligned start
C5_Witness ==
    /\ hist.ok /\ hist.again /\ hist.na = 1 /\ hist.nd = 0
    /\ last.op = "alloc" /\ last.res = "Ok" /\ last.ret > start

\* C6: an alloc whose size exceeds available_bytes() returns NoMemory and
\* changes no field.
C6_OversizeAllocRejected ==
    [][(available_bytes # PANIC /\ last'.op = "alloc" /\ last'.x > available_bytes)
       => (last'.res = "NoMemory" /\ Fields' = Fields)]_vars

\* C7: an alloc_pages whose num_pages * PAGE_SIZE does not fit the word returns
\* InvalidParam and changes no field.
C7_PageBytesOverflow ==
    [][(last'.op = "alloc_pages" /\ last'.x * PAGE_SIZE >= Word)
       => (last'.res = "InvalidParam" /\ Fields' = Fields)]_vars

\* such a call was made with page allocations outstanding
C7_Witness ==
    /\ last.op = "alloc_pages" /\ last.x * PAGE_SIZE >= Word
    /\ last.res = "InvalidParam" /\ page_count > 0

\* C8: an alloc_pages whose byte total exceeds p_pos, or whose start, aligned
\* downward to a power of two, is below b_pos, returns NoMemory and changes no
\* field.
C8_PagesDoNotFit ==
    [][(/\ last'.op = "alloc_pages"
        /\ last'.x * PAGE_SIZE < Word
        /\ \/ last'.x * PAGE_SIZE > p_pos
           \/ /\ last'.x * PAGE_SIZE <= p_pos
              /\ IsPow2(last'.y)
              /\ RoundDown(p_pos - last'.x * PAGE_SIZE, last'.y) < b_pos)
       => (last'.res = "NoMemory" /\ Fields' = Fields)]_vars

\* the pages fit below p_pos but their aligned start is inside the byte zone
C8_Witness ==
    /\ last.op = "alloc_pages" /\ last.res = "NoMemory" /\ ~last.changed
    /\ last.x * PAGE_SIZE <= p_pos /\ IsPow2(last.y)
    /\ RoundDown(p_pos - last.x * PAGE_SIZE, last.y) < b_pos
    /\ b_pos > start

\* C9: right after an init whose start + size is representable, total_bytes()
\* and available_bytes() are size and used_bytes() is 0.
C9_InitQueries ==
    (last.op = "init" /\ last.res # "panic" /\ last.x + last.y < Word) =>
        (total_bytes = last.y /\ available_bytes = last.y /\ used_bytes = 0)

\* an init made while allocations were outstanding
C9_Witness ==
    last.op = "init" /\ last.res # "panic" /\ last.x + last.y < Word /\ last.busy

\* C10: dealloc with count = 0 and dealloc_pages with page_count = 0 return
\* normally and change no field.
C10_DeallocSaturates ==
    [][(\/ last'.op = "dealloc" /\ count = 0
        \/ last'.op = "dealloc_pages" /\ page_count = 0)
       => (last'.res = "unit" /\ Fields' = Fields)]_vars

\* a dealloc made with nothing outstanding, in an initialised allocator
C10_Witness ==
    last.op = "dealloc" /\ count = 0 /\ ~last.changed /\ ~last.busy /\ hist.initOk

\* C11: add_memory returns NoMemory for every argument pair in every state and
\* changes no field.
C11_AddMemoryFails ==
    [][last'.op = "add_memory" => (last'.res = "NoMemory" /\ Fields' = Fields)]_vars

\* add_memory called on an initialised allocator with allocations outstanding
C11_Witness ==
    last.op = "add_memory" /\ last.res = "NoMemory" /\ last.busy /\ hist.initOk

\* C12: no call other than init raises p_pos, so used_pages() never decreases.
C12_PagesNeverFreed ==
    [][(last'.op # "init" /\ last'.res # "panic") => p_pos' <= p_pos]_vars

Errors == {"NoMemory", "InvalidParam"}

\* C13: whenever start + size, the round-up of b_pos to align, aligned_addr +
\* size or p_pos - total_bytes leaves [0, 2^WordBits), the call reports an error
\* and stores nothing.
C13_CheckedArithmetic ==
    [][(\/ last'.op = "init" /\ last'.x + last'.y >= Word
        \/ /\ last'.op = "alloc"
           /\ RoundUp(b_pos, last'.y) + last'.x >= Word
        \/ /\ last'.op = "alloc_pages"
           /\ last'.x * PAGE_SIZE < Word
           /\ last'.x * PAGE_SIZE > p_pos)
       => (last'.res \in Errors /\ Fields' = Fields)]_vars

\* the fields after init(PAGE_SIZE, 2 * PAGE_SIZE), after the alloc(16, 8) that
\* follows it and after the alloc_pages(1, PAGE_SIZE) that follows that
Scenario0 == <<PAGE_SIZE, 3 * PAGE_SIZE, PAGE_SIZE, 3 * PAGE_SIZE, 0, 0>>
Scenario1 == <<PAGE_SIZE, 3 * PAGE_SIZE, PAGE_SIZE + 16, 3 * PAGE_SIZE, 1, 0>>
Scenario2 == <<PAGE_SIZE, 3 * PAGE_SIZE, PAGE_SIZE + 16, 2 * PAGE_SIZE, 1, 1>>

\* C14: with PAGE_SIZE = 0x1000, after init(0x1000, 0x2000): alloc(16, 8) returns
\* 0x1000 and used_bytes() is 16; then alloc_pages(1, 0x1000) returns 0x2000 and
\* used_pages() is 1; then alloc(0x2000, 1) fails and changes no field.
C14_Scenario ==
    /\ []((last.op = "init" /\ last.x = PAGE_SIZE /\ last.y = 2 * PAGE_SIZE)
          => Fields = Scenario0)
    /\ [][(Fields = Scenario0 /\ last'.op = "alloc" /\ last'.x = 16 /\ last'.y = 8)
          => (/\ last'.res = "Ok" /\ last'.ret = PAGE_SIZE
              /\ used_bytes' = 16 /\ Fields' = Scenario1)]_vars
    /\ [][(/\ Fields = Scenario1 /\ last'.op = "alloc_pages"
           /\ last'.x = 1 /\ last'.y = PAGE_SIZE)
          => (/\ last'.res = "Ok" /\ last'.ret = 2 * PAGE_SIZE
              /\ used_pages' = 1 /\ Fields' = Scenario2)]_vars
    /\ [][(/\ Fields = Scenario2 /\ last'.op = "alloc"
           /\ last'.x = 2 * PAGE_SIZE /\ last'.y = 1)
          => (last'.res \in Errors /\ Fields' = Fields)]_vars

\* the end of the scenario: its two allocations are the live ones and the
\* third call has failed
C14_Witness ==
    /\ PAGE_SIZE = 4096
    /\ Fields = Scenario2
    /\ liveB = {<<PAGE_SIZE, 16, 8>>} /\ liveP = {<<2 * PAGE_SIZE, 1>>}
    /\ hist.nb = 1 /\ hist.np = 1
    /\ last.op = "alloc" /\ last.x = 2 * PAGE_SIZE /\ last.y = 1
    /\ last.res = "NoMemory"

\* C15: a dealloc that leaves count above 0 leaves b_pos as it was, whatever it
\* names; a dealloc changes b_pos only by bringing count to 0, and then b_pos
\* is start.
C15_BulkReclaim ==
    [][last'.op = "dealloc" =>
          /\ count' > 0 => b_pos' = b_pos
          /\ b_pos' # b_pos => (count = 1 /\ count' = 0 /\ b_pos' = start)
          /\ (count = 1) => (count' = 0 /\ b_pos' = start)]_vars

\* two allocs, then a dealloc of the later one: the earlier one is still live,
\* count is 1 and the byte cursor is still above the freed allocation
C15_Witness ==
    /\ last.op = "dealloc" /\ hist.ok /\ hist.matched
    /\ hist.na = 2 /\ hist.nd = 1 /\ count = 1
    /\ \E a \in liveB : a[1] < last.x
    /\ b_pos >= last.x + last.y /\ last.y > 0

\* C16: a successful alloc returns the smallest multiple of align at or above
\* the b_pos before the call, sets b_pos to that address plus size, adds 1 to
\* count and leaves p_pos, which the new b_pos does not exceed.
C16_AllocEffect ==
    [][(last'.op = "alloc" /\ last'.res = "Ok") =>
          /\ last'.ret = RoundUp(b_pos, last'.y)
          /\ b_pos' = last'.ret + last'.x
          /\ count' = count + 1
          /\ p_pos' = p_pos
          /\ b_pos' <= p_pos]_vars

\* the second of two allocs, placed above the end of the first by its alignment
C16_Witness ==
    /\ last.op = "alloc" /\ last.res = "Ok" /\ hist.ok /\ hist.na = 2 /\ count = 2
    /\ \E a \in liveB : ByteEnd(a) < last.ret /\ last.ret < ByteEnd(a) + last.y

\* C17: a successful alloc_pages with a power-of-two align_pow2 returns the
\* largest multiple of align_pow2 at or below p_pos - num_pages * PAGE_SIZE,
\* which is at or above b_pos, sets p_pos to it and adds 1 to page_count.
C17_AllocPagesEffect ==
    [][(last'.op = "alloc_pages" /\ last'.res = "Ok" /\ IsPow2(last'.y)) =>
          /\ last'.ret = RoundDown(p_pos - last'.x * PAGE_SIZE, last'.y)
          /\ last'.ret + last'.x * PAGE_SIZE <= p_pos
          /\ last'.ret >= b_pos
          /\ p_pos' = last'.ret
          /\ page_count' = page_count + 1]_vars

\* the first alloc_pages after init, placed below end - num_pages * PAGE_SIZE by
\* its alignment
C17_Witness ==
    /\ last.op = "alloc_pages" /\ last.res = "Ok" /\ IsPow2(last.y)
    /\ hist.np = 1 /\ page_count = 1 /\ hist.initOk
    /\ last.ret + last.x * PAGE_SIZE < end /\ p_pos = last.ret

Queries == {"total_bytes", "used_bytes", "available_bytes",
            "total_pages", "used_pages", "available_pages"}

\* C18: only init changes start and end; alloc and dealloc change neither p_pos
\* nor page_count; alloc_pages and dealloc_pages change neither b_pos nor count;
\* the queries change no field.
C18_Frame ==
    [][/\ last'.op # "init" => (start' = start /\ end' = end)
       /\ last'.op \in {"alloc", "dealloc"} =>
              (p_pos' = p_pos /\ page_count' = page_count)
       /\ last'.op \in {"alloc_pages", "dealloc_pages"} =>
              (b_pos' = b_pos /\ count' = count)
       /\ last'.op \in Queries => Fields' = Fields]_vars

\* a dealloc_pages that reclaimed the page zone while bytes were allocated
C18_Witness ==
    /\ last.op = "dealloc_pages" /\ last.changed /\ page_count = 0 /\ p_pos = end
    /\ count > 0 /\ b_pos > start /\ hist.initOk

\* C19: an init made in any state leaves what an init with the same arguments
\* leaves after new(): b_pos = start, p_pos = end = start + size (in the word),
\* count = 0 and page_count = 0.
C19_ReinitDiscards ==
    (last.op = "init" /\ last.res # "panic") =>
        Fields = <<last.x, (last.x + last.y) % Word,
                   last.x, (last.x + last.y) % Word, 0, 0>>

\* an init that changed fields, made with allocations outstanding
C19_Witness ==
    /\ last.op = "init" /\ last.res = "unit" /\ last.busy /\ last.changed
    /\ count = 0 /\ page_count = 0

\* C20: an alloc that returns an error changes no field, also where the aligned
\* address is 0.
C20_FailedAllocChangesNothing ==
    [][(last'.op = "alloc" /\ last'.res \in Errors) => Fields' = Fields]_vars

====
